---- MODULE Spec2Model ----
(***************************************************************************)
(* A model of src/main.py: the Semantic Scholar search client              *)
(* (lit_search), the context builder (build_context_from_papers), the      *)
(* Gemini synthesis client (init_vertex, ask_gemini_about_papers) and the  *)
(* Streamlit page (main) with its session state.                           *)
(*                                                                         *)
(* Text is a sequence of characters, a character being a one-element       *)
(* string, so that trimming, slicing, joining and formatting are computed  *)
(* as Python computes them.  A dict entry is a record [tag, val] whose tag *)
(* is "absent" (no such key), "null" (the key holds None) or "val".        *)
(***************************************************************************)
EXTENDS Integers, Sequences, FiniteSets, TLC

VARIABLES pc, call, ret, env, session, widgets, page, hist

vars == <<pc, call, ret, env, session, widgets, page, hist>>

(***************************************************************************)
(* Bounds of the model.                                                    *)
(***************************************************************************)
\* longest paper list handed to the context builder / returned by a search
MaxPapers == 3
\* largest cap k tried on the context builder
MaxK == 4
\* longest abstract tried, and largest max_abs_chars tried
MaxAbsLen == 3
MaxAbsChars == 3
\* largest value of the "Results" number input tried (the page allows 1..50)
MaxLimit == 2

(***************************************************************************)
(* Program constants.                                                      *)
(***************************************************************************)
DefaultK == 8
DefaultMaxAbsChars == 900
DefaultLimit == 10
MinLimit == 1

(***************************************************************************)
(* Python values.                                                          *)
(***************************************************************************)
Min(a, b) == IF a <= b THEN a ELSE b
Max(a, b) == IF a >= b THEN a ELSE b

AbsentText == [tag |-> "absent", val |-> <<>>]
NullText == [tag |-> "null", val |-> <<>>]
AbsentInt == [tag |-> "absent", val |-> 0]
NullInt == [tag |-> "null", val |-> 0]
Val(v) == [tag |-> "val", val |-> v]
None(v) == [tag |-> "none", val |-> v.val]

\* d.get(key): the value, or None when the key is absent or holds None
PyGet(d, key) == IF d[key].tag = "val" THEN d[key] ELSE None(d[key])

\* d.get(key, default): the default only when the key is absent
PyGetDefault(d, key, default) ==
    IF d[key].tag = "absent" THEN Val(default) ELSE PyGet(d, key)

\* x or default, for a text or a list x
PyOr(x, default) == IF x.tag = "val" /\ x.val # <<>> THEN x.val ELSE default

\* s[:n]
PySliceTo(s, n) ==
    SubSeq(s, 1, IF n >= 0 THEN Min(n, Len(s)) ELSE Max(Len(s) + n, 0))

IsSpace(c) == c \in {" ", "\n", "\t"}

RECURSIVE LStrip(_)
LStrip(s) == IF s # <<>> /\ IsSpace(Head(s)) THEN LStrip(Tail(s)) ELSE s

RECURSIVE RStrip(_)
RStrip(s) ==
    IF s # <<>> /\ IsSpace(s[Len(s)]) THEN RStrip(SubSeq(s, 1, Len(s) - 1)) ELSE s

\* str.strip()
Strip(s) == RStrip(LStrip(s))

Digits == <<"0", "1", "2", "3", "4", "5", "6", "7", "8", "9">>

RECURSIVE NatToStr(_)
NatToStr(n) ==
    IF n < 10 THEN <<Digits[n + 1]>>
    ELSE NatToStr(n \div 10) \o <<Digits[(n % 10) + 1]>>

\* str(n) of an int
IntToStr(n) == IF n < 0 THEN <<"-">> \o NatToStr(0 - n) ELSE NatToStr(n)

\* an f-string field {x} of a value that is an int or None
FormatIntOrNone(x) ==
    IF x.tag = "val" THEN IntToStr(x.val) ELSE <<"N", "o", "n", "e">>

RECURSIVE Join(_, _)
\* sep.join(parts)
Join(sep, parts) ==
    IF parts = <<>> THEN <<>>
    ELSE IF Len(parts) = 1 THEN parts[1]
    ELSE parts[1] \o sep \o Join(sep, Tail(parts))

(***************************************************************************)
(* build_context_from_papers                                               *)
(***************************************************************************)
Untitled == <<"U", "n", "t", "i", "t", "l", "e", "d">>
Ellipsis == <<".", ".", ".">>
NoAbstract ==
    <<"(", "n", "o", " ", "a", "b", "s", "t", "r", "a", "c", "t", " ",
      "a", "v", "a", "i", "l", "a", "b", "l", "e", ")">>
\* the em dash of the source line is one character
EmDash == "--"
TitleLabel == <<"T", "i", "t", "l", "e", ":", " ">>
AbstractLabel == <<"\n", "A", "b", "s", "t", "r", "a", "c", "t", ":", " ">>

\* title = p.get("title") or "Untitled"
TitleOf(p) == PyOr(PyGet(p, "title"), Untitled)

\* ", ".join(a.get("name", "") for a in p.get("authors", [])): iterating None
\* raises TypeError, and so does joining a None item
AuthorsOf(p) ==
    LET authors == PyGetDefault(p, "authors", <<>>)
        names == [i \in 1..Len(authors.val) |->
                      PyGetDefault(authors.val[i], "name", <<>>)]
    IN  IF authors.tag = "none" \/ \E i \in 1..Len(names) : names[i].tag = "none"
        THEN [raised |-> TRUE, text |-> <<>>]
        ELSE [raised |-> FALSE,
              text |-> Join(<<",", " ">>, [i \in 1..Len(names) |-> names[i].val])]

\* f"[{idx}] {title} ({year}) -- {authors} -- {url}".strip()
SourceLine(idx, p) ==
    Strip(<<"[">> \o IntToStr(idx) \o <<"]", " ">> \o TitleOf(p)
          \o <<" ", "(">> \o FormatIntOrNone(PyGet(p, "year")) \o <<")", " ">>
          \o <<EmDash, " ">> \o AuthorsOf(p).text \o <<" ", EmDash, " ">>
          \o PyOr(PyGet(p, "url"), <<>>))

\* the marker is added from max_abs_chars characters on: >= for >
AbstractText_CutAtLimit(p, max_abs_chars) ==
    LET abstract == Strip(PyOr(PyGet(p, "abstract"), <<>>))
    IN  IF abstract # <<>>
        THEN PySliceTo(abstract, max_abs_chars)
             \o (IF Len(abstract) >= max_abs_chars THEN Ellipsis ELSE <<>>)
        ELSE NoAbstract

\* the text after "Abstract: " in the chunk of one record
AbstractText(p, max_abs_chars) ==
    LET abstract == Strip(PyOr(PyGet(p, "abstract"), <<>>))
    IN  IF abstract # <<>>
        THEN PySliceTo(abstract, max_abs_chars)
             \o (IF Len(abstract) > max_abs_chars THEN Ellipsis ELSE <<>>)
        ELSE NoAbstract

ChunkHead(idx, p) ==
    <<"[">> \o IntToStr(idx) \o <<"]", " ">> \o TitleLabel \o TitleOf(p)
    \o AbstractLabel

AbstractChunk(idx, p, max_abs_chars) ==
    ChunkHead(idx, p) \o AbstractText(p, max_abs_chars)

\* a slice that is one too long: papers[:k + 1]
Selected_OffByOne(papers, k) == PySliceTo(papers, k + 1)

\* selected = papers[:k]
Selected(papers, k) == PySliceTo(papers, k)

RECURSIVE ContextLoop(_, _, _, _)
\* for idx, p in enumerate(selected, 1): ... ; the loop ends at the first
\* record whose authors raise
ContextLoop(selected, idx, max_abs_chars, acc) ==
    IF idx > Len(selected) THEN acc
    ELSE IF AuthorsOf(selected[idx]).raised
    THEN [raised |-> TRUE, source_lines |-> <<>>, abstract_chunks |-> <<>>]
    ELSE ContextLoop(selected, idx + 1, max_abs_chars,
             [raised |-> FALSE,
              source_lines |->
                  Append(acc.source_lines, SourceLine(idx, selected[idx])),
              abstract_chunks |->
                  Append(acc.abstract_chunks,
                         AbstractChunk(idx, selected[idx], max_abs_chars))])

build_context_from_papers(papers, k, max_abs_chars) ==
    LET out == ContextLoop(Selected(papers, k), 1, max_abs_chars,
                   [raised |-> FALSE, source_lines |-> <<>>,
                    abstract_chunks |-> <<>>])
    IN  [raised |-> out.raised,
         source_lines |-> out.source_lines,
         abstract_chunks |-> out.abstract_chunks,
         source_list |-> Join(<<"\n">>, out.source_lines),
         abstracts_block |-> Join(<<"\n", "\n">>, out.abstract_chunks)]

(***************************************************************************)
(* lit_search                                                              *)
(***************************************************************************)
Fields == <<"title", "abstract", "year", "authors", "url">>
RequestTimeout == 20

\* the year key is set whatever the two texts are
YearParam_AlwaysSet(start_year, end_year) ==
    Val(start_year \o <<"-">> \o end_year)

\* params["year"], set by the if / elif / elif chain; no branch, no key
YearParam(start_year, end_year) ==
    IF start_year # <<>> /\ end_year # <<>>
    THEN Val(start_year \o <<"-">> \o end_year)
    ELSE IF start_year # <<>> /\ ~(end_year # <<>>)
    THEN Val(start_year \o <<"-">>)
    ELSE IF end_year # <<>> /\ ~(start_year # <<>>)
    THEN Val(<<"-">> \o end_year)
    ELSE AbsentText

SearchParams(topic, start_year, end_year, limit) ==
    [query |-> Strip(PyOr(Val(topic), <<>>)),
     fields |-> Fields,
     limit |-> limit,
     sort |-> <<"y", "e", "a", "r">>,
     year |-> YearParam(start_year, end_year)]

\* headers = {"x-api-key": S2_API_KEY} if S2_API_KEY else {}
SearchHeaders(api_key) ==
    [x_api_key |-> IF api_key # <<>> THEN Val(api_key) ELSE AbsentText]

\* requests.get raises RequestException on a connection error or a timeout,
\* raise_for_status raises it on a 4xx / 5xx status
RequestFails(response) ==
    response.kind \in {"connection_error", "timeout", "http_error"}

\* data = r.json() if r.content else {}; papers = data.get("data", []) or []
ResponsePapers(response) ==
    IF response.body = "empty" THEN <<>>
    ELSE IF response.data.tag = "val" THEN response.data.val
    ELSE <<>>

\* the request is tried a second time before giving up
SearchOnFailure_Retry(params, headers) ==
    [params |-> params, headers |-> headers, timeout |-> RequestTimeout,
     requests |-> 2, raised |-> FALSE,
     errors |-> <<"Semantic Scholar request failed",
                  "Semantic Scholar request failed">>,
     papers |-> <<>>]

SearchOnFailure(params, headers) ==
    [params |-> params, headers |-> headers, timeout |-> RequestTimeout,
     requests |-> 1, raised |-> FALSE,
     errors |-> <<"Semantic Scholar request failed">>, papers |-> <<>>]

lit_search(topic, start_year, end_year, limit, api_key, response) ==
    LET params == SearchParams(topic, start_year, end_year, limit)
        headers == SearchHeaders(api_key)
    IN  IF RequestFails(response)
        THEN SearchOnFailure(params, headers)
        ELSE [params |-> params, headers |-> headers,
              timeout |-> RequestTimeout, requests |-> 1, raised |-> FALSE,
              errors |-> <<>>, papers |-> ResponsePapers(response)]

(***************************************************************************)
(* init_vertex and ask_gemini_about_papers                                 *)
(***************************************************************************)
NoResponseText ==
    <<"N", "o", " ", "r", "e", "s", "p", "o", "n", "s", "e", " ",
      "t", "e", "x", "t", ".">>

\* "and" for "or": missing only when both are
EnvMissing_BothOnly(e) ==
    ~(e.project.tag = "val" /\ e.project.val # <<>>)
    /\ ~(e.credentials.tag = "val" /\ e.credentials.val # <<>>)

\* os.getenv gives None or a text; "not x" holds of None and of ""
EnvMissing(e) ==
    ~(e.project.tag = "val" /\ e.project.val # <<>>)
    \/ ~(e.credentials.tag = "val" /\ e.credentials.val # <<>>)

\* backend.init is what vertexai_init does when called: "ok" or "raise"
init_vertex(e, backend) ==
    IF EnvMissing(e)
    THEN [ok |-> FALSE, init_calls |-> 0,
          errors |-> <<"Missing GOOGLE_CLOUD_PROJECT or GOOGLE_APPLICATION_CREDENTIALS env vars.">>]
    ELSE IF backend.init = "raise"
    THEN [ok |-> FALSE, init_calls |-> 1,
          errors |-> <<"Vertex AI init failed">>]
    ELSE [ok |-> TRUE, init_calls |-> 1, errors |-> <<>>]

\* the f-string prompt; its fixed blocks are one token each
Prompt(user_prompt, source_list, abstracts_block) ==
    <<"system_instructions", "\n", "\n", "User question:", "\n">>
    \o user_prompt
    \o <<"\n", "\n", "Source List:", "\n">> \o source_list
    \o <<"\n", "\n", "Abstracts:", "\n">> \o abstracts_block
    \o <<"\n", "\n", "Instructions:", "closing_instructions">>

AskOutcome(raised, result, errors, init_calls, ctor_calls, gen_calls, prompt) ==
    [raised |-> raised, result |-> result, errors |-> errors,
     init_calls |-> init_calls, ctor_calls |-> ctor_calls,
     gen_calls |-> gen_calls, prompt |-> prompt]

NoneText == [tag |-> "none", val |-> <<>>]

\* a response without text is returned as None
Generate_NoTextIsNone(gen, errors, prompt) ==
    IF gen.kind = "raise"
    THEN AskOutcome(FALSE, NoneText,
                    errors \o <<"Gemini request failed">>, 1, 1, 1, prompt)
    ELSE AskOutcome(FALSE,
                    IF PyOr(PyGet(gen, "text"), <<>>) = <<>> THEN NoneText
                    ELSE PyGet(gen, "text"),
                    errors, 1, 1, 1, prompt)

\* try: resp = model.generate_content(prompt);
\*      return getattr(resp, "text", None) or "No response text."
\* except Exception: st.error(...); return None
Generate(gen, errors, prompt) ==
    IF gen.kind = "raise"
    THEN AskOutcome(FALSE, NoneText,
                    errors \o <<"Gemini request failed">>, 1, 1, 1, prompt)
    ELSE AskOutcome(FALSE,
                    Val(PyOr(PyGet(gen, "text"), NoResponseText)),
                    errors, 1, 1, 1, prompt)

\* lines 81-110, once the context is built: it raises, or the request runs
WithContext(ctx, errors, user_prompt, gen) ==
    IF ctx.raised
    THEN AskOutcome(TRUE, NoneText, errors, 1, 1, 0, <<>>)
    ELSE Generate(gen, errors,
                  Prompt(user_prompt, ctx.source_list, ctx.abstracts_block))

\* lines 76-81, once init_vertex has answered; backend.ctor is what
\* GenerativeModel(...) does, backend.gen what generate_content does;
\* lines 79 and 81 run outside any try
AfterInit(iv, user_prompt, papers, backend) ==
    IF ~iv.ok
    THEN AskOutcome(FALSE, NoneText, iv.errors, iv.init_calls, 0, 0, <<>>)
    ELSE IF backend.ctor = "raise"
    THEN AskOutcome(TRUE, NoneText, iv.errors, 1, 1, 0, <<>>)
    ELSE WithContext(
             build_context_from_papers(papers, DefaultK, DefaultMaxAbsChars),
             iv.errors, user_prompt, backend.gen)

ask_gemini_about_papers(user_prompt, papers, e, backend) ==
    AfterInit(init_vertex(e, backend), user_prompt, papers, backend)

(***************************************************************************)
(* Inputs of the function-level specifications.                            *)
(***************************************************************************)
TextsUpTo(alphabet, n) == UNION {[1..m -> alphabet] : m \in 0..n}

Paper(title, year, authors, url, abstract) ==
    [title |-> title, year |-> year, authors |-> authors, url |-> url,
     abstract |-> abstract]

Author(name) == [name |-> name]

AbsentList == [tag |-> "absent", val |-> <<>>]
NullList == [tag |-> "null", val |-> <<>>]

\* three well-formed records with different titles
GoodPaper(n) ==
    Paper(Val(<<"T", Digits[n + 1]>>), Val(2018 + n),
          Val(<<Author(Val(<<"A">>))>>), Val(<<"u", Digits[n + 1]>>),
          IF n = 2 THEN NullText ELSE Val(<<"a", "b", "c", "d", "e">>))

GoodPapers == {GoodPaper(n) : n \in 1..3}

\* a record as the API sends it when it knows neither year nor authors
NullAuthorsPaper ==
    Paper(Val(<<"T", "0">>), NullInt, NullList, NullText, NullText)

\* one record, every way a field other than the abstract can be missing
FieldPapers ==
    {Paper(t, y, a, u, Val(<<"a", "b">>)) :
        t \in {AbsentText, NullText, Val(<<>>), Val(<<"T">>)},
        y \in {AbsentInt, NullInt, Val(2020)},
        a \in {AbsentList, NullList, Val(<<>>),
               Val(<<Author(Val(<<"A">>))>>),
               Val(<<Author(Val(<<"A">>)), Author(Val(<<"B">>))>>),
               Val(<<Author(AbsentText)>>), Val(<<Author(NullText)>>)},
        u \in {AbsentText, NullText, Val(<<>>), Val(<<"u">>)}}

\* one record, every abstract up to MaxAbsLen characters
AbstractPapers ==
    {Paper(Val(<<"T">>), Val(2020), Val(<<Author(Val(<<"A">>))>>),
           Val(<<"u">>), ab) :
        ab \in {AbsentText, NullText}
               \cup {Val(t) : t \in TextsUpTo({"a", "b", " "}, MaxAbsLen)}}

ListsUpTo(S, n) == UNION {[1..m -> S] : m \in 0..n}

CtxCall(papers, k, max_abs_chars) ==
    [papers |-> papers, k |-> k, max_abs_chars |-> max_abs_chars]

CtxCalls ==
    {CtxCall(ps, k, 2) :
        ps \in ListsUpTo(GoodPapers \cup {NullAuthorsPaper}, MaxPapers),
        k \in 0..MaxK}
    \cup {CtxCall(<<p>>, k, m) :
            p \in AbstractPapers, k \in {1, DefaultK}, m \in 0..MaxAbsChars}
    \cup {CtxCall(<<p>>, DefaultK, DefaultMaxAbsChars) : p \in FieldPapers}

Response(kind, body, data) == [kind |-> kind, body |-> body, data |-> data]

\* what the one GET can end in; a failure status may carry a JSON body
Responses ==
    {Response(kind, "json", d) :
        kind \in {"connection_error", "timeout"}, d \in {AbsentList}}
    \cup {Response("http_error", "json", d) :
            d \in {AbsentList, Val(<<GoodPaper(1)>>)}}
    \cup {Response("ok", "empty", AbsentList)}
    \cup {Response("ok", "json", d) :
            d \in {AbsentList, NullList}
                  \cup {Val(ps) : ps \in ListsUpTo({GoodPaper(1), GoodPaper(2)},
                                                   MaxPapers)}}

YearTexts ==
    {<<>>, <<" ">>, <<"2", "0", "1", "9">>, <<"2", "0", "2", "3">>}

Limits == (MinLimit..MaxLimit) \cup {DefaultLimit}

SearchCalls ==
    [topic : {<<>>, <<"c">>, <<" ", "c", " ">>},
     start_year : YearTexts, end_year : YearTexts, limit : Limits,
     api_key : {<<>>, <<"k">>}, response : Responses]

EnvTexts == {AbsentText, Val(<<>>), Val(<<"p">>)}

Envs == [project : EnvTexts, credentials : EnvTexts]

GenOutcome(kind, text) == [kind |-> kind, text |-> text]

\* generate_content raises, or returns a response whose text is missing,
\* None, empty or a text
GenOutcomes ==
    {GenOutcome("raise", AbsentText)}
    \cup {GenOutcome("response", t) :
            t \in {AbsentText, NullText, Val(<<>>), Val(<<"S", "1">>),
                   Val(<<"S", "2">>)}}

Backends == [init : {"ok", "raise"}, ctor : {"ok", "raise"}, gen : GenOutcomes]

AskCalls ==
    [user_prompt : {<<"q">>},
     papers : {<<>>, <<GoodPaper(1), GoodPaper(2)>>, <<NullAuthorsPaper>>},
     env : Envs, backend : Backends]

(***************************************************************************)
(* State.                                                                  *)
(***************************************************************************)
NoCall == [op |-> "none"]
NoRet == [op |-> "none"]
NoEnv == [project |-> AbsentText, credentials |-> AbsentText, s2_api_key |-> <<>>]

\* st.session_state: no key is set when the session starts
EmptySession ==
    [papers |-> AbsentList, user_prompt |-> AbsentText,
     gemini_answer |-> AbsentText]

\* the radio's first option and the number input's value
InitWidgets == [option |-> "literature", limit |-> DefaultLimit]

BlankPage ==
    [entries |-> 0, ask_button |-> FALSE, download |-> FALSE,
     download_data |-> <<>>, errors |-> <<>>, synthesis |-> NoneText,
     aborted |-> FALSE]

\* what the session has done so far: how the last search ended and the
\* question typed at it, how the last ask ended and what the last ask that
\* returned has returned
NoHist ==
    [search |-> "none", question |-> <<>>, ask |-> "none",
     returned |-> NoneText]

SessionIdle ==
    /\ env = NoEnv
    /\ session = EmptySession
    /\ widgets = InitWidgets
    /\ page = BlankPage
    /\ hist = NoHist

(***************************************************************************)
(* The function-level specifications: Init draws the arguments and what    *)
(* the outside world answers, the one action applies the function.         *)
(***************************************************************************)
InitSearch == pc = "search_ready" /\ call \in SearchCalls /\ ret = NoRet /\ SessionIdle

DoSearch ==
    /\ pc = "search_ready"
    /\ ret' = lit_search(call.topic, call.start_year, call.end_year,
                         call.limit, call.api_key, call.response)
    /\ pc' = "search_done"
    /\ UNCHANGED <<call, env, session, widgets, page, hist>>

SpecSearch == InitSearch /\ [][DoSearch]_vars

InitCtx == pc = "ctx_ready" /\ call \in CtxCalls /\ ret = NoRet /\ SessionIdle

DoBuildContext ==
    /\ pc = "ctx_ready"
    /\ ret' = build_context_from_papers(call.papers, call.k, call.max_abs_chars)
    /\ pc' = "ctx_done"
    /\ UNCHANGED <<call, env, session, widgets, page, hist>>

SpecCtx == InitCtx /\ [][DoBuildContext]_vars

InitAsk == pc = "ask_ready" /\ call \in AskCalls /\ ret = NoRet /\ SessionIdle

DoAsk ==
    /\ pc = "ask_ready"
    /\ ret' = ask_gemini_about_papers(call.user_prompt, call.papers, call.env,
                                      call.backend)
    /\ pc' = "ask_done"
    /\ UNCHANGED <<call, env, session, widgets, page, hist>>

SpecAsk == InitAsk /\ [][DoAsk]_vars

(***************************************************************************)
(* Claims about lit_search, under SpecSearch.                              *)
(***************************************************************************)
\* C1: the request carries year = "start-end" when both years are non-empty,
\* "start-" when only the start year is, "-end" when only the end year is,
\* and no year key at all when both are empty.
C1_YearFilter ==
    pc = "search_done" =>
        LET s == call.start_year
            e == call.end_year
            y == ret.params.year
        IN  /\ (Len(s) > 0 /\ Len(e) > 0) => y = Val(s \o <<"-">> \o e)
            /\ (Len(s) > 0 /\ Len(e) = 0) => y = Val(s \o <<"-">>)
            /\ (Len(s) = 0 /\ Len(e) > 0) => y = Val(<<"-">> \o e)
            /\ (Len(s) = 0 /\ Len(e) = 0) => y.tag = "absent"

C1_Witness ==
    /\ pc = "search_done"
    /\ call.start_year = <<>>
    /\ call.end_year = <<"2", "0", "2", "3">>
    /\ ret.params.year = Val(<<"-", "2", "0", "2", "3">>)

\* C2: when the GET ends in a network error, a timeout or a failure status,
\* lit_search raises nothing, shows exactly one error message, has issued
\* exactly one request and returns an empty paper list.
C2_SearchFailure ==
    (pc = "search_done"
     /\ call.response.kind \in {"connection_error", "timeout", "http_error"}) =>
        /\ ~ret.raised
        /\ Len(ret.errors) = 1
        /\ ret.requests = 1
        /\ ret.papers = <<>>

C2_Witness ==
    /\ pc = "search_done"
    /\ call.response.kind = "timeout"
    /\ Len(ret.errors) = 1
    /\ ret.papers = <<>>

(***************************************************************************)
(* Claims about build_context_from_papers, under SpecCtx.                  *)
(***************************************************************************)
\* C3: for every cap k (a count, 0 or more) neither block has more than k
\* entries, both have the same number of entries, and source line i and
\* abstract chunk i are the renderings of the i-th record of the input list.
C3_CapAndOrder ==
    pc = "ctx_done" =>
        /\ Len(ret.source_lines) <= call.k
        /\ Len(ret.abstract_chunks) <= call.k
        /\ Len(ret.source_lines) = Len(ret.abstract_chunks)
        /\ Len(ret.source_lines) <= Len(call.papers)
        /\ \A i \in 1..Len(ret.source_lines) :
              /\ ret.source_lines[i] = SourceLine(i, call.papers[i])
              /\ ret.abstract_chunks[i] =
                     AbstractChunk(i, call.papers[i], call.max_abs_chars)

C3_Witness ==
    /\ pc = "ctx_done"
    /\ call.k = 2
    /\ Len(call.papers) = 3
    /\ call.papers[1] # call.papers[2]
    /\ Len(ret.source_lines) = 2
    /\ Len(ret.abstract_chunks) = 2

\* the text without its leading and trailing whitespace, said without Strip
Trimmed(s) ==
    LET keep == {i \in 1..Len(s) : ~IsSpace(s[i])}
    IN  IF keep = {} THEN <<>>
        ELSE SubSeq(s, CHOOSE i \in keep : \A j \in keep : i <= j,
                       CHOOSE i \in keep : \A j \in keep : j <= i)

\* chunk i of the result is the head of record i followed by text
ChunkTextIs(i, text) ==
    ret.abstract_chunks[i] = ChunkHead(i, call.papers[i]) \o text

\* C4 as stated: for every chunk put in the block, a non-empty abstract
\* longer than max_abs_chars is cut to its first max_abs_chars characters
\* plus "...", and one of that length or shorter is left as it is.
C4_AsStated ==
    pc = "ctx_done" =>
        \A i \in 1..Len(ret.abstract_chunks) :
            LET a == call.papers[i].abstract
                m == call.max_abs_chars
            IN  (a.tag = "val" /\ a.val # <<>>) =>
                    IF Len(a.val) > m
                    THEN ChunkTextIs(i, SubSeq(a.val, 1, m) \o Ellipsis)
                    ELSE ChunkTextIs(i, a.val)

\* C4 amended: for every chunk put in the block the rule applies to the
\* abstract trimmed of surrounding whitespace: longer than max_abs_chars,
\* its first max_abs_chars characters plus "..."; non-empty and that length
\* or shorter, the trimmed abstract as it is; empty after trimming (or no
\* abstract at all), the placeholder.
C4_Trimmed ==
    pc = "ctx_done" =>
        \A i \in 1..Len(ret.abstract_chunks) :
            LET a == Trimmed(call.papers[i].abstract.val)
                m == call.max_abs_chars
            IN  IF call.papers[i].abstract.tag # "val" \/ a = <<>>
                THEN ChunkTextIs(i, NoAbstract)
                ELSE IF Len(a) > m
                THEN ChunkTextIs(i, SubSeq(a, 1, m) \o Ellipsis)
                ELSE ChunkTextIs(i, a)

C4_Witness ==
    /\ pc = "ctx_done"
    /\ Len(ret.abstract_chunks) = 1
    /\ call.papers[1].abstract = Val(<<" ", "a", "b">>)
    /\ call.max_abs_chars = 1
    /\ ChunkTextIs(1, <<"a", ".", ".", ".">>)

\* the source line the claim describes: "Untitled" for a missing title and
\* the empty text for a missing year, missing authors and a missing url
DefaultsLine(p) ==
    Strip(<<"[", "1", "]", " ">>
          \o (IF p.title.tag = "val" /\ p.title.val # <<>>
              THEN p.title.val ELSE Untitled)
          \o <<" ", "(">>
          \o (IF p.year.tag = "val" THEN IntToStr(p.year.val) ELSE <<>>)
          \o <<")", " ", EmDash, " ">>
          \o (IF p.authors.tag = "val"
              THEN Join(<<",", " ">>,
                        [i \in 1..Len(p.authors.val) |->
                            p.authors.val[i].name.val])
              ELSE <<>>)
          \o <<" ", EmDash, " ">>
          \o (IF p.url.tag = "val" THEN p.url.val ELSE <<>>))

\* C5: a record with any of title, year, authors, url absent or null is
\* rendered without raising, with "Untitled" for a missing title and the
\* empty text for the other missing fields.
C5_MissingFields ==
    (/\ pc = "ctx_done"
     /\ call.papers \in {<<p>> : p \in FieldPapers}
     /\ \A i \in 1..Len(call.papers[1].authors.val) :
            call.papers[1].authors.val[i].name.tag = "val") =>
        /\ ~ret.raised
        /\ ret.source_lines = <<DefaultsLine(call.papers[1])>>

(***************************************************************************)
(* Claims about ask_gemini_about_papers, under SpecAsk.                    *)
(***************************************************************************)
\* C6: with the project identifier or the credential path absent from the
\* environment the result is None, exactly one configuration error is
\* shown, and the backend is never called: no init, no client, no request.
C6_ConfigMissing ==
    (pc = "ask_done"
     /\ (call.env.project.tag = "absent" \/ call.env.credentials.tag = "absent")) =>
        /\ ~ret.raised
        /\ ret.result.tag = "none"
        /\ ret.errors =
               <<"Missing GOOGLE_CLOUD_PROJECT or GOOGLE_APPLICATION_CREDENTIALS env vars.">>
        /\ ret.init_calls = 0
        /\ ret.ctor_calls = 0
        /\ ret.gen_calls = 0

C6_Witness ==
    /\ pc = "ask_done"
    /\ call.env.project = Val(<<"p">>)
    /\ call.env.credentials.tag = "absent"
    /\ call.backend.init = "ok"
    /\ ret.result.tag = "none"
    /\ Len(ret.errors) = 1

\* an error is raised at one of the four places the claim names
ErrorRaisedInAsk ==
    /\ ~EnvMissing(call.env)
    /\ \/ call.backend.init = "raise"
       \/ call.backend.ctor = "raise"
       \/ build_context_from_papers(call.papers, DefaultK,
                                    DefaultMaxAbsChars).raised
       \/ call.backend.gen.kind = "raise"

\* C7: whichever of backend initialisation, client construction, context
\* building or the generation request raises, the function does not raise:
\* it shows an error message and returns None.
C7_ErrorsCaught ==
    (pc = "ask_done" /\ ErrorRaisedInAsk) =>
        /\ ~ret.raised
        /\ ret.result.tag = "none"
        /\ Len(ret.errors) >= 1

(***************************************************************************)
(* main: one run of the page script.  Streamlit runs the script from the   *)
(* top on every interaction; click is the button pressed, if any, and      *)
(* input what the user typed and what the outside world answers.           *)
(***************************************************************************)
NoResponseFromGemini == <<"No response from Gemini.">>

\* what one run leaves: the session state, the page, and what lit_search
\* and ask_gemini_about_papers returned to it when it called them
RunOutcome(ss, pg, found, answer) ==
    [session |-> ss, page |-> pg, found |-> found, answer |-> answer]

NotCalled == [called |-> FALSE]
Called(r) == [called |-> TRUE, r |-> r]

\* a new search also resets the held answer
StoreSearch_ClearsAnswer(ss, result, question) ==
    [ss EXCEPT !.papers = Val(result.papers),
               !.user_prompt = Val(Strip(question)),
               !.gemini_answer = Val(<<>>)]

\* lines 145-146: what the Search button stores
StoreSearch(ss, result, question) ==
    [ss EXCEPT !.papers = Val(result.papers),
               !.user_prompt = Val(Strip(question))]

\* the held question is not looked at
AskOffered_PapersOnly(ss) == PyGetDefault(ss, "papers", <<>>).val # <<>>

\* line 169: if papers and st.session_state.get("user_prompt")
AskOffered(ss) ==
    /\ PyGetDefault(ss, "papers", <<>>).val # <<>>
    /\ PyOr(PyGet(ss, "user_prompt"), <<>>) # <<>>

\* line 178: if st.session_state.get("gemini_answer")
DownloadOffered(ss) == PyOr(PyGet(ss, "gemini_answer"), <<>>) # <<>>

\* line 175: st.session_state["gemini_answer"] = answer or ""
StoreAnswer(ss, answer) == [ss EXCEPT !.gemini_answer = Val(PyOr(answer, <<>>))]

\* lines 150-166: the number of entries rendered
Entries(papers, limit) ==
    IF papers # <<>> THEN Len(PySliceTo(papers, limit)) ELSE 0

\* lines 178-184 after lines 149-166, in a run that does not ask
Rendered(w, ss, errors, found) ==
    RunOutcome(ss,
        [entries |-> Entries(PyGetDefault(ss, "papers", <<>>).val, w.limit),
         ask_button |-> AskOffered(ss),
         download |-> DownloadOffered(ss),
         download_data |->
             IF DownloadOffered(ss) THEN ss.gemini_answer.val ELSE <<>>,
         errors |-> errors, synthesis |-> NoneText, aborted |-> FALSE],
        found, NotCalled)

\* lines 170-184 in a run that asks: an exception leaving line 172 ends
\* the run there
Asked(w, ss, answer) ==
    IF answer.raised
    THEN RunOutcome(ss,
             [entries |-> Entries(ss.papers.val, w.limit),
              ask_button |-> TRUE, download |-> FALSE, download_data |-> <<>>,
              errors |-> answer.errors, synthesis |-> NoneText,
              aborted |-> TRUE],
             NotCalled, Called(answer))
    ELSE RunOutcome(StoreAnswer(ss, answer.result),
             [entries |-> Entries(ss.papers.val, w.limit),
              ask_button |-> TRUE,
              download |-> DownloadOffered(StoreAnswer(ss, answer.result)),
              download_data |-> PyOr(answer.result, <<>>),
              errors |-> answer.errors,
              synthesis |-> Val(PyOr(answer.result, NoResponseFromGemini)),
              aborted |-> FALSE],
             NotCalled, Called(answer))

\* lines 143-146, then the rest of the run
Searched(w, ss, result, question) ==
    Rendered(w, StoreSearch(ss, result, question), result.errors, Called(result))

\* st.button returns True in the run its click starts; the Ask button is
\* evaluated only where line 169 lets the script reach it
main(w, ss, e, click, input) ==
    IF w.option # "literature"
    THEN RunOutcome(ss, BlankPage, NotCalled, NotCalled)
    ELSE IF click = "search"
    THEN Searched(w, ss,
                  lit_search(input.topic, input.start_year, input.end_year,
                             w.limit, e.s2_api_key, input.response),
                  input.question)
    ELSE IF click = "ask" /\ AskOffered(ss)
    THEN Asked(w, ss,
               ask_gemini_about_papers(ss.user_prompt.val,
                                       PySliceTo(ss.papers.val, w.limit), e,
                                       input.backend))
    ELSE Rendered(w, ss, <<>>, NotCalled)

(***************************************************************************)
(* The session: every interaction is one run of main.                      *)
(***************************************************************************)
Options == {"literature", "variant", "general"}

Questions == {<<>>, <<" ">>, <<"q">>, <<" ", "q">>}

\* what a search can get back in the session: the first n of three records
SessionResponses ==
    {Response("timeout", "json", AbsentList),
     Response("http_error", "json", Val(<<GoodPaper(1)>>)),
     Response("ok", "empty", AbsentList)}
    \cup {Response("ok", "json", Val([i \in 1..n |-> GoodPaper(((i - 1) % 3) + 1)])) :
            n \in 0..MaxPapers}

SessionEnvs ==
    {[project |-> Val(<<"p">>), credentials |-> c, s2_api_key |-> <<"k">>] :
        c \in {AbsentText, Val(<<"c">>)}}

SearchInputs ==
    [topic : {<<"c">>}, start_year : {<<>>, <<"2", "0", "1", "9">>},
     end_year : {<<>>}, question : Questions, response : SessionResponses,
     backend : {[init |-> "ok", ctor |-> "ok",
                 gen |-> GenOutcome("response", AbsentText)]}]

NoInput ==
    [topic |-> <<>>, start_year |-> <<>>, end_year |-> <<>>, question |-> <<>>,
     response |-> Response("ok", "empty", AbsentList),
     backend |-> [init |-> "ok", ctor |-> "ok",
                  gen |-> GenOutcome("response", AbsentText)]]

Init ==
    /\ pc = "session"
    /\ call = NoCall
    /\ ret = NoRet
    /\ env \in SessionEnvs
    /\ session = EmptySession
    /\ widgets = InitWidgets
    /\ page = BlankPage
    /\ hist = NoHist

\* how an ask ended: an exception left it, it made no generation request,
\* the request failed, the model returned no text, or it returned a text
AskKind(answer, backend) ==
    IF answer.raised THEN "raised"
    ELSE IF answer.gen_calls = 0 THEN "not_requested"
    ELSE IF backend.gen.kind = "raise" THEN "request_failed"
    ELSE IF backend.gen.text.tag = "val" /\ backend.gen.text.val # <<>>
    THEN "text"
    ELSE "no_text"

\* the history after a run
HistAfter(out, input) ==
    IF out.found.called
    THEN [hist EXCEPT !.search = IF RequestFails(input.response) THEN "failed"
                                 ELSE IF out.found.r.papers = <<>> THEN "empty"
                                 ELSE "found",
                      !.question = input.question]
    ELSE IF out.answer.called
    THEN [hist EXCEPT !.ask = AskKind(out.answer.r, input.backend),
                      !.returned = IF out.answer.r.raised THEN @
                                   ELSE out.answer.r.result]
    ELSE hist

Commit(w, out, input) ==
    /\ widgets' = w
    /\ session' = out.session
    /\ page' = out.page
    /\ hist' = HistAfter(out, input)
    /\ UNCHANGED <<pc, call, ret, env>>

Run(w, click, input) == Commit(w, main(w, session, env, click, input), input)

\* the user picks a task in the sidebar
SelectOption(o) ==
    /\ pc = "session"
    /\ o # widgets.option
    /\ Run([widgets EXCEPT !.option = o], "none", NoInput)

\* the user changes the "Results" number input
SetLimit(l) ==
    /\ pc = "session"
    /\ widgets.option = "literature"
    /\ l # widgets.limit
    /\ Run([widgets EXCEPT !.limit = l], "none", NoInput)

\* the user presses Search
ClickSearch(input) ==
    /\ pc = "session"
    /\ widgets.option = "literature"
    /\ Run(widgets, "search", input)

\* the user presses "Ask Gemini about these results", which the last run
\* has rendered
ClickAsk(backend) ==
    /\ pc = "session"
    /\ page.ask_button
    /\ Run(widgets, "ask", [NoInput EXCEPT !.backend = backend])

\* the user presses "Download summary", which the last run has rendered;
\* the click reruns the script
ClickDownload ==
    /\ pc = "session"
    /\ page.download
    /\ Run(widgets, "download", NoInput)

Next ==
    \/ \E o \in Options : SelectOption(o)
    \/ \E l \in Limits : SetLimit(l)
    \/ \E input \in SearchInputs : ClickSearch(input)
    \/ \E backend \in Backends : ClickAsk(backend)
    \/ ClickDownload

Spec == Init /\ [][Next]_vars

(***************************************************************************)
(* Claims about the session, under Spec.                                   *)
(***************************************************************************)
\* C8: whenever the page offers the Ask button, the most recent search
\* found records, the held paper list is non-empty, and the question typed
\* at that search is non-empty after trimming (and is the held question).
C8_AskOnlyAfterResults ==
    page.ask_button =>
        /\ hist.search = "found"
        /\ session.papers.tag = "val"
        /\ session.papers.val # <<>>
        /\ Trimmed(hist.question) # <<>>
        /\ session.user_prompt = Val(Trimmed(hist.question))

C8_Witness ==
    /\ page.ask_button
    /\ hist.search = "found"
    /\ hist.question = <<" ", "q">>
    /\ hist.ask = "none"

\* C9 as stated: after an ask whose model returned no text, as after an ask
\* whose request failed, the stored answer is empty and no download is
\* offered.
C9_AsStated ==
    hist.ask \in {"no_text", "request_failed"} =>
        /\ PyOr(PyGet(session, "gemini_answer"), <<>>) = <<>>
        /\ ~page.download

\* C9 amended: after an ask whose request failed the result was None, the
\* stored answer is "" and no download is offered; after an ask whose model
\* returned no text the result was the placeholder "No response text.",
\* which is the stored answer and is offered for download while the
\* literature page is shown.
C9_PlaceholderKept ==
    /\ hist.ask = "request_failed" =>
           /\ hist.returned.tag = "none"
           /\ session.gemini_answer = Val(<<>>)
           /\ ~page.download
    /\ hist.ask = "no_text" =>
           /\ hist.returned = Val(NoResponseText)
           /\ session.gemini_answer = Val(NoResponseText)
           /\ widgets.option = "literature" =>
                  (page.download /\ page.download_data = NoResponseText)

C9_Witness ==
    /\ hist.ask = "no_text"
    /\ page.download
    /\ page.download_data = NoResponseText

====
